---- MODULE Spec2Model ----
(***************************************************************************)
(* Model of utf8-chunked (src/src/lib.rs): the incremental UTF-8 decoder   *)
(* Utf8Chunker with its operations push and flush, the classifier          *)
(* incomplete_sequence_len and the helper utf8_char_len.                   *)
(*                                                                         *)
(* Bytes are integers 0..255.  A String is the sequence of its UTF-8       *)
(* bytes, an Option<String> is a record [some, text].                      *)
(***************************************************************************)
EXTENDS Integers, Sequences, FiniteSets, TLC

\* ------------------------------------------------------------------ bounds

\* Most bytes pushed into one decoder, arbitrary bytes (Spec).
MaxStream == 4

\* Most bytes pushed into one decoder, well-formed input (SpecWF).
MaxWell == 6
\* Most bytes the adapter's source yields before it ends.
MaxRead == 3
\* Most bytes pushed into one decoder, long tails over LongBytes (SpecLong).
MaxLong == 5

\* ------------------------------------------------------------------ bytes

\* The bytes the chunks are made of: 'A' (41), a continuation byte (9F), a
\* 2-byte (C3), a 3-byte (ED) and a 4-byte (F0) leading byte, and a byte that
\* leads nothing (FF).
Bytes == {65, 159, 195, 237, 240, 255}

\* b & m for the masks m = 0x80, 0xC0, 0xE0, 0xF0, 0xF8 (the high bits of b).
BitAnd(b, m) == b - (b % (256 - m))

Min(a, b) == IF a < b THEN a ELSE b

\* The last n bytes of s, s[s.len() - n ..].
Suffix(s, n) == SubSeq(s, Len(s) - n + 1, Len(s))

\* s[from ..] and s[.. upto] with Rust's 0-based offsets.
SliceFrom(s, from) == SubSeq(s, from + 1, Len(s))
SliceTo(s, upto) == SubSeq(s, 1, upto)

\* Option<String>
None == [some |-> FALSE, text |-> <<>>]
Some(s) == [some |-> TRUE, text |-> s]

\* ------------------------------------------------- core::str::from_utf8

\* The width the validator's table gives a first byte (0: not a first byte).
Utf8Width(b) ==
    IF b < 128 THEN 1
    ELSE IF b >= 194 /\ b <= 223 THEN 2
    ELSE IF b >= 224 /\ b <= 239 THEN 3
    ELSE IF b >= 240 /\ b <= 244 THEN 4
    ELSE 0

\* The byte at 1-based position i, or 0 past the end.
SafeGet(s, i) == IF i >= 1 /\ i <= Len(s) THEN s[i] ELSE 0

IsCont(b) == BitAnd(b, 192) = 128

\* The second byte a first byte of width 3 or 4 admits.
SecondOk(first, second) ==
    \/ first = 224 /\ second >= 160 /\ second <= 191
    \/ first >= 225 /\ first <= 236 /\ second >= 128 /\ second <= 191
    \/ first = 237 /\ second >= 128 /\ second <= 159
    \/ first >= 238 /\ first <= 239 /\ second >= 128 /\ second <= 191
    \/ first = 240 /\ second >= 144 /\ second <= 191
    \/ first >= 241 /\ first <= 243 /\ second >= 128 /\ second <= 191
    \/ first = 244 /\ second >= 128 /\ second <= 143

\* How many bytes of the sequence starting at position i are acceptable as
\* the beginning of one code point: the first byte and every following byte
\* that the validator accepts, up to the declared width.
GoodRun(s, i) ==
    LET w == Utf8Width(s[i]) IN
    IF w = 0 THEN 0
    ELSE IF w = 1 THEN 1
    ELSE IF w = 2 THEN (IF IsCont(SafeGet(s, i + 1)) THEN 2 ELSE 1)
    ELSE IF ~SecondOk(s[i], SafeGet(s, i + 1)) THEN 1
    ELSE IF ~IsCont(SafeGet(s, i + 2)) THEN 2
    ELSE IF w = 3 THEN 3
    ELSE IF ~IsCont(SafeGet(s, i + 3)) THEN 3
    ELSE 4

\* A complete well-formed code point starts at position i.
CharAt(s, i) == Utf8Width(s[i]) > 0 /\ GoodRun(s, i) = Utf8Width(s[i])

\* Utf8Error::valid_up_to of from_utf8(s), scanning from position i; it is
\* Len(s) exactly when from_utf8(s) is Ok.
RECURSIVE ValidFrom(_, _)
ValidFrom(s, i) ==
    IF i > Len(s) THEN Len(s)
    ELSE IF CharAt(s, i) THEN ValidFrom(s, i + Utf8Width(s[i]))
    ELSE i - 1

ValidUpTo(s) == ValidFrom(s, 1)

IsValid(s) == ValidUpTo(s) = Len(s)

\* ------------------------------------------- String::from_utf8_lossy

REPLACEMENT == <<239, 191, 189>>

\* One U+FFFD for every maximal malformed part, valid code points verbatim.
RECURSIVE LossyFrom(_, _)
LossyFrom(s, i) ==
    IF i > Len(s) THEN <<>>
    ELSE IF CharAt(s, i)
         THEN SubSeq(s, i, i + Utf8Width(s[i]) - 1) \o LossyFrom(s, i + Utf8Width(s[i]))
         ELSE REPLACEMENT \o LossyFrom(s, i + (IF GoodRun(s, i) = 0 THEN 1 ELSE GoodRun(s, i)))

from_utf8_lossy(s) == LossyFrom(s, 1)

\* ------------------------------------------------------- utf8_char_len

\* utf8_char_len with the 3-byte class reported as 2 bytes long.
utf8_char_len_short(byte) ==
    IF BitAnd(byte, 128) = 0 THEN 1
    ELSE IF BitAnd(byte, 224) = 192 THEN 2
    ELSE IF BitAnd(byte, 240) = 224 THEN 2
    ELSE IF BitAnd(byte, 248) = 240 THEN 4
    ELSE 0

utf8_char_len(byte) ==
    IF BitAnd(byte, 128) = 0 THEN 1
    ELSE IF BitAnd(byte, 224) = 192 THEN 2
    ELSE IF BitAnd(byte, 240) = 224 THEN 3
    ELSE IF BitAnd(byte, 248) = 240 THEN 4
    ELSE 0

\* --------------------------------------------- incomplete_sequence_len

\* The loop `for i in (0..check_len).rev()`: i runs from check_len - 1 down
\* to 0, so idx = len - 1 - i runs upward through the last check_len bytes.
RECURSIVE ScanWindow(_, _, _)

\* The loop with a fallback that keeps 3 bytes however few were given.
ScanWindow_keep3(trailing, check_len, i) ==
    IF i < 0 THEN 3
    ELSE LET idx == Len(trailing) - 1 - i
             byte == trailing[idx + 1]
         IN IF BitAnd(byte, 128) = 0
            THEN (IF i = 0 THEN 0 ELSE ScanWindow(trailing, check_len, i - 1))
            ELSE IF BitAnd(byte, 192) # 128
            THEN LET expected_len == utf8_char_len(byte)
                     available == i + 1
                 IN IF expected_len > 0 /\ available < expected_len
                    THEN available
                    ELSE 0
            ELSE ScanWindow(trailing, check_len, i - 1)

ScanWindow(trailing, check_len, i) ==
    IF i < 0 THEN Min(check_len, 3)
    ELSE LET idx == Len(trailing) - 1 - i
             byte == trailing[idx + 1]
         IN IF BitAnd(byte, 128) = 0
            THEN (IF i = 0 THEN 0 ELSE ScanWindow(trailing, check_len, i - 1))
            ELSE IF BitAnd(byte, 192) # 128
            THEN LET expected_len == utf8_char_len(byte)
                     available == i + 1
                 IN IF expected_len > 0 /\ available < expected_len
                    THEN available
                    ELSE 0
            ELSE ScanWindow(trailing, check_len, i - 1)

\* The same loop, asking whether one of its reads trailing[idx] is out of
\* range (a panic) before it returns.
RECURSIVE ScanFaults(_, _, _)
ScanFaults(trailing, check_len, i) ==
    IF i < 0 THEN FALSE
    ELSE LET idx == Len(trailing) - 1 - i
         IN IF idx < 0 \/ idx >= Len(trailing) THEN TRUE
            ELSE LET byte == trailing[idx + 1]
                 IN IF BitAnd(byte, 128) = 0
                    THEN (IF i = 0 THEN FALSE ELSE ScanFaults(trailing, check_len, i - 1))
                    ELSE IF BitAnd(byte, 192) # 128 THEN FALSE
                    ELSE ScanFaults(trailing, check_len, i - 1)

\* The same loop, asking whether it ends without returning, so that the
\* function returns check_len.min(3) (the fallback after the loop).
RECURSIVE ScanFallsThrough(_, _, _)
ScanFallsThrough(trailing, check_len, i) ==
    IF i < 0 THEN TRUE
    ELSE LET idx == Len(trailing) - 1 - i
             byte == trailing[idx + 1]
         IN IF BitAnd(byte, 128) = 0
            THEN (IF i = 0 THEN FALSE ELSE ScanFallsThrough(trailing, check_len, i - 1))
            ELSE IF BitAnd(byte, 192) # 128 THEN FALSE
            ELSE ScanFallsThrough(trailing, check_len, i - 1)

\* incomplete_sequence_len(trailing) returns from its last line.
fallback_taken(trailing) ==
    /\ trailing # <<>>
    /\ LET check_len == Min(Len(trailing), 4)
       IN ScanFallsThrough(trailing, check_len, check_len - 1)

\* incomplete_sequence_len looking at the last 2 bytes only.
incomplete_sequence_len_window2(trailing) ==
    IF trailing = <<>> THEN 0
    ELSE LET check_len == Min(Len(trailing), 2)
         IN ScanWindow(trailing, check_len, check_len - 1)

incomplete_sequence_len(trailing) ==
    IF trailing = <<>> THEN 0
    ELSE LET check_len == Min(Len(trailing), 4)
         IN ScanWindow(trailing, check_len, check_len - 1)

\* --------------------------------------------------- Utf8Chunker::push

\* push_merged that decodes the whole buffer lossily once a valid prefix
\* exists, instead of returning the prefix alone.
push_merged_lossy(merged) ==
    LET valid_up_to == ValidUpTo(merged)
    IN IF valid_up_to = Len(merged)
       THEN [buf |-> <<>>, result |-> Some(merged)]
       ELSE LET trailing == SliceFrom(merged, valid_up_to)
                incomplete_len == incomplete_sequence_len(trailing)
            IN IF incomplete_len = 0 /\ valid_up_to = 0
               THEN [buf |-> merged, result |-> None]
               ELSE [buf |-> IF incomplete_len > 0
                             THEN Suffix(merged, incomplete_len)
                             ELSE <<>>,
                     result |-> IF valid_up_to > 0
                                THEN Some(from_utf8_lossy(merged))
                                ELSE None]

\* push_merged that retains the first incomplete_len bytes of the trailing
\* part instead of the last incomplete_len bytes of the buffer.
push_merged_keep_head(merged) ==
    LET valid_up_to == ValidUpTo(merged)
    IN IF valid_up_to = Len(merged)
       THEN [buf |-> <<>>, result |-> Some(merged)]
       ELSE LET trailing == SliceFrom(merged, valid_up_to)
                incomplete_len == incomplete_sequence_len(trailing)
            IN IF incomplete_len = 0 /\ valid_up_to = 0
               THEN [buf |-> merged, result |-> None]
               ELSE [buf |-> IF incomplete_len > 0
                             THEN SliceTo(trailing, incomplete_len)
                             ELSE <<>>,
                     result |-> IF valid_up_to > 0
                                THEN Some(SliceTo(merged, valid_up_to))
                                ELSE None]

\* push_merged that wraps the valid prefix in Some without testing that it
\* is non-empty.
push_merged_some_empty(merged) ==
    LET valid_up_to == ValidUpTo(merged)
    IN IF valid_up_to = Len(merged)
       THEN [buf |-> <<>>, result |-> Some(merged)]
       ELSE LET trailing == SliceFrom(merged, valid_up_to)
                incomplete_len == incomplete_sequence_len(trailing)
            IN IF incomplete_len = 0 /\ valid_up_to = 0
               THEN [buf |-> merged, result |-> None]
               ELSE [buf |-> IF incomplete_len > 0
                             THEN Suffix(merged, incomplete_len)
                             ELSE <<>>,
                     result |-> Some(SliceTo(merged, valid_up_to))]

\* The buffer and the returned value of the general path, once the chunk has
\* been appended to the buffer: merged is self.buf after extend_from_slice.
push_merged(merged) ==
    LET valid_up_to == ValidUpTo(merged)
    IN IF valid_up_to = Len(merged)
       THEN [buf |-> <<>>, result |-> Some(merged)]
       ELSE LET trailing == SliceFrom(merged, valid_up_to)
                incomplete_len == incomplete_sequence_len(trailing)
            IN IF incomplete_len = 0 /\ valid_up_to = 0
               THEN [buf |-> merged, result |-> None]
               ELSE [buf |-> IF incomplete_len > 0
                             THEN Suffix(merged, incomplete_len)
                             ELSE <<>>,
                     result |-> IF valid_up_to > 0
                                THEN Some(SliceTo(merged, valid_up_to))
                                ELSE None]

\* push whose empty-chunk return also clears the buffer.
push_empty_clears(b, d) ==
    IF d = <<>> THEN [buf |-> <<>>, result |-> None]
    ELSE IF b = <<>> /\ IsValid(d) THEN [buf |-> b, result |-> Some(d)]
    ELSE push_merged(b \o d)

\* push whose fast path appends the chunk to the buffer before returning it.
push_fast_keeps(b, d) ==
    IF d = <<>> THEN [buf |-> b, result |-> None]
    ELSE IF b = <<>> /\ IsValid(d) THEN [buf |-> b \o d, result |-> Some(d)]
    ELSE push_merged(b \o d)

\* push with a fast path that does not look at the buffer.
push_fast_unguarded(b, d) ==
    IF d = <<>> THEN [buf |-> b, result |-> None]
    ELSE IF IsValid(d) THEN [buf |-> b, result |-> Some(d)]
    ELSE push_merged(b \o d)

\* The buffer and the returned value of push(data) on a decoder whose buffer
\* is b.
push(b, d) ==
    IF d = <<>> THEN [buf |-> b, result |-> None]
    ELSE IF b = <<>> /\ IsValid(d) THEN [buf |-> b, result |-> Some(d)]
    ELSE push_merged(b \o d)

\* push(data) panics on a decoder whose buffer is b: a slice bound or an
\* index is out of range, or self.buf.len() - incomplete_len underflows.
push_faults(b, d) ==
    /\ d # <<>>
    /\ ~(b = <<>> /\ IsValid(d))
    /\ LET merged == b \o d
           valid_up_to == ValidUpTo(merged)
           trailing == SliceFrom(merged, valid_up_to)
           check_len == Min(Len(trailing), 4)
       IN /\ valid_up_to # Len(merged)
          /\ \/ valid_up_to > Len(merged)
             \/ ScanFaults(trailing, check_len, check_len - 1)
             \/ incomplete_sequence_len(trailing) > Len(merged)

\* The decoder of push with the fast path removed: every non-empty chunk is
\* appended to the buffer and then validated.
push_nofast(b, d) ==
    IF d = <<>> THEN [buf |-> b, result |-> None]
    ELSE push_merged(b \o d)

\* -------------------------------------------------- Utf8Chunker::flush

\* flush that returns the lossy text but leaves the bytes in the buffer.
flush_keeps(b) ==
    IF b = <<>> THEN [buf |-> b, result |-> None]
    ELSE [buf |-> b, result |-> Some(from_utf8_lossy(b))]

flush(b) ==
    IF b = <<>> THEN [buf |-> b, result |-> None]
    ELSE [buf |-> <<>>, result |-> Some(from_utf8_lossy(b))]

\* Observers.
is_empty(b) == b = <<>>
buffered_len(b) == Len(b)

\* -------------------------------------------------------------- state

VARIABLES
    buf,       \* Utf8Chunker.buf
    result,    \* the value the last call returned
    op,        \* the last call: "new", "push" or "flush"
    data,      \* the chunk of the last push
    prev,      \* buf as it was before the last call
    consumed,  \* the stream the last call belongs to: the bytes pushed since
               \* construction or since the flush before that call, in order
    out,       \* the texts returned for that stream, concatenated
    total,     \* the number of bytes pushed since construction
    panicked,  \* a call did not return: it panicked
    nf_buf,    \* the buffer of a decoder without the fast path that is given
               \* the same calls
    nf_result, \* the value its last call returned
    src,       \* the adapter's read buffer (BytesMut): bytes read, not yet decoded
    eof,       \* the source has signalled its end
    ended,     \* the stream of texts has signalled its end
    fwd,       \* the texts forwarded to the stream's consumer, in order
    chunks,    \* the chunks the codec has passed to push, in order
    readbytes, \* the bytes read from the source, in order
    eof_pushed \* decode_eof has pushed left-over bytes and got text back

coreVars == <<buf, result, op, data, prev, consumed, out, total, panicked,
              nf_buf, nf_result>>

codecVars == <<src, eof, ended, fwd, chunks, readbytes, eof_pushed>>

vars == <<buf, result, op, data, prev, consumed, out, total, panicked,
          nf_buf, nf_result, src, eof, ended, fwd, chunks, readbytes,
          eof_pushed>>

\* A flush ends a stream: the call after it starts the next one.
CurStream == IF op = "flush" THEN <<>> ELSE consumed
CurOut == IF op = "flush" THEN <<>> ELSE out

\* Utf8Chunker::new
Init ==
    /\ buf = <<>>
    /\ result = None
    /\ op = "new"
    /\ data = <<>>
    /\ prev = <<>>
    /\ consumed = <<>>
    /\ out = <<>>
    /\ total = 0
    /\ panicked = FALSE
    /\ nf_buf = <<>>
    /\ nf_result = None
    /\ src = <<>>
    /\ eof = FALSE
    /\ ended = FALSE
    /\ fwd = <<>>
    /\ chunks = <<>>
    /\ readbytes = <<>>
    /\ eof_pushed = FALSE

SeqsUpTo(n) == UNION {[1..k -> Bytes] : k \in 0..n}

Push(d) ==
    /\ ~panicked
    /\ UNCHANGED codecVars
    /\ IF push_faults(buf, d)
       THEN /\ panicked' = TRUE
            /\ op' = "push"
            /\ data' = d
            /\ prev' = buf
            /\ UNCHANGED <<buf, result, consumed, out, total, nf_buf, nf_result>>
       ELSE LET r == push(buf, d)
                nf == push_nofast(nf_buf, d)
            IN /\ buf' = r.buf
               /\ result' = r.result
               /\ op' = "push"
               /\ data' = d
               /\ prev' = buf
               /\ consumed' = CurStream \o d
               /\ out' = CurOut \o r.result.text
               /\ total' = total + Len(d)
               /\ nf_buf' = nf.buf
               /\ nf_result' = nf.result
               /\ UNCHANGED panicked

Flush ==
    LET r == flush(buf)
        nf == flush(nf_buf)
    IN /\ ~panicked
       /\ UNCHANGED codecVars
       /\ buf' = r.buf
       /\ result' = r.result
       /\ op' = "flush"
       /\ prev' = buf
       /\ consumed' = CurStream
       /\ out' = CurOut \o r.result.text
       /\ nf_buf' = nf.buf
       /\ nf_result' = nf.result
       /\ UNCHANGED <<data, total, panicked>>

\* A new decoder replaces the old one.
New ==
    /\ op # "new"
    /\ UNCHANGED codecVars
    /\ buf' = <<>>
    /\ result' = None
    /\ op' = "new"
    /\ data' = <<>>
    /\ prev' = <<>>
    /\ consumed' = <<>>
    /\ out' = <<>>
    /\ total' = 0
    /\ panicked' = FALSE
    /\ nf_buf' = <<>>
    /\ nf_result' = None

\* Arbitrary chunks.
PushAny == \E d \in SeqsUpTo(MaxStream - total) : Push(d)

Next == PushAny \/ Flush \/ New

Spec == Init /\ [][Next]_vars

\* ------------------------------------------------------------ long tails

\* ASCII, a continuation byte, a 2-byte lead and a 4-byte lead: the bytes
\* that make a malformed tail of 4 bytes or more after a well-formed
\* character.
LongBytes == {65, 159, 195, 240}

LongSeqsUpTo(n) == UNION {[1..k -> LongBytes] : k \in 0..n}

\* Arbitrary chunks over LongBytes.
PushLong == \E d \in LongSeqsUpTo(MaxLong - total) : Push(d)

NextLong == PushLong \/ Flush \/ New

SpecLong == Init /\ [][NextLong]_vars

\* ------------------------------------------------- well-formed streams

\* The encodings of one code point over Bytes.
Chars == {c \in SeqsUpTo(4) : c # <<>> /\ IsValid(c) /\ Utf8Width(c[1]) = Len(c)}

IsPrefix(p, s) == Len(p) <= Len(s) /\ SubSeq(s, 1, Len(p)) = p

\* The well-formed sequences of at most n bytes.
RECURSIVE WellFormed(_)
WellFormed(n) ==
    IF n <= 0 THEN {<<>>}
    ELSE LET w == WellFormed(n - 1)
         IN w \cup {x \in {s \o c : s \in w, c \in Chars} : Len(x) <= n}

\* The byte sequences of at most MaxWell bytes that some well-formed sequence
\* begins with: what a reader of a well-formed source has seen at some point.
WellStreams ==
    {p \in UNION {{SubSeq(s, 1, k) : k \in 0..Len(s)} : s \in WellFormed(MaxWell + 3)} :
        Len(p) <= MaxWell}

\* Chunks that are successive pieces of a well-formed sequence.
PushWell ==
    \E s \in WellStreams :
        /\ IsPrefix(CurStream, s)
        /\ total + Len(s) - Len(CurStream) <= MaxWell
        /\ Push(SliceFrom(s, Len(CurStream)))

NextWF == PushWell \/ Flush \/ New

SpecWF == Init /\ [][NextWF]_vars

\* ------------------------------------------------------- Utf8Codec

\* Decoder::decode on a codec whose chunker holds b, given the read buffer
\* s: the chunker's buffer, the read buffer and the returned frame.
decode(b, s) ==
    IF s = <<>> THEN [buf |-> b, src |-> s, result |-> None, pushed |-> FALSE]
    ELSE LET r == push(b, s)
         IN [buf |-> r.buf, src |-> <<>>, result |-> r.result, pushed |-> TRUE]

\* decode_eof as the Decoder trait provides it when a codec does not define
\* it: decode, nothing more.
decode_eof_default(b, s) == decode(b, s)

\* Decoder::decode_eof.
decode_eof(b, s) ==
    LET r == push(b, s)
    IN IF s # <<>> /\ r.result.some
       THEN [buf |-> r.buf, src |-> <<>>, result |-> r.result, pushed |-> TRUE]
       ELSE LET b1 == IF s # <<>> THEN r.buf ELSE b
                f == flush(b1)
            IN [buf |-> f.buf, src |-> <<>>, result |-> f.result,
                pushed |-> s # <<>>]

\* The source yields a non-empty run of bytes, appended to the read buffer.
SourceRead ==
    /\ ~eof
    /\ \E d \in SeqsUpTo(MaxRead - Len(readbytes)) :
        /\ d # <<>>
        /\ src' = src \o d
        /\ readbytes' = readbytes \o d
    /\ UNCHANGED <<coreVars, eof, ended, fwd, chunks, eof_pushed>>

\* The source yields 0 bytes: end of data.
SourceEof ==
    /\ ~eof
    /\ eof' = TRUE
    /\ UNCHANGED <<coreVars, src, ended, fwd, chunks, readbytes, eof_pushed>>

\* The frame reader calls decode while the source has not ended, and hands
\* a returned text to the consumer.
Decode ==
    LET r == decode(buf, src) IN
    /\ ~eof
    /\ buf' = r.buf
    /\ src' = r.src
    /\ fwd' = IF r.result.some THEN Append(fwd, r.result.text) ELSE fwd
    /\ chunks' = IF r.pushed THEN Append(chunks, src) ELSE chunks
    /\ UNCHANGED <<result, op, data, prev, consumed, out, total, panicked,
                   nf_buf, nf_result, eof, ended, readbytes, eof_pushed>>

\* After the end of data the frame reader calls decode_eof until it returns
\* None; a returned text goes to the consumer, None ends the stream.
DecodeEof ==
    LET r == decode_eof(buf, src) IN
    /\ eof
    /\ ~ended
    /\ buf' = r.buf
    /\ src' = r.src
    /\ fwd' = IF r.result.some THEN Append(fwd, r.result.text) ELSE fwd
    /\ chunks' = IF r.pushed THEN Append(chunks, src) ELSE chunks
    /\ ended' = ~r.result.some
    /\ eof_pushed' = (eof_pushed \/ (r.pushed /\ r.result.some))
    /\ UNCHANGED <<result, op, data, prev, consumed, out, total, panicked,
                   nf_buf, nf_result, eof, readbytes>>

NextCodec == SourceRead \/ SourceEof \/ Decode \/ DecodeEof

SpecCodec == Init /\ [][NextCodec]_vars

\* ------------------------------------------------- notions of the claims

\* Byte classes by bit pattern.
IsAscii(b) == b < 128
IsContinuation(b) == b >= 128 /\ b < 192
Declares(b) ==
    IF b >= 192 /\ b < 224 THEN 2
    ELSE IF b >= 224 /\ b < 240 THEN 3
    ELSE IF b >= 240 /\ b < 248 THEN 4
    ELSE 0
IsMultiLead(b) == Declares(b) >= 2

\* p is a multi-byte leading byte followed only by continuation bytes, and
\* is shorter than the leading byte declares.
PlausiblePrefix(p) ==
    /\ p # <<>>
    /\ IsMultiLead(p[1])
    /\ Len(p) < Declares(p[1])
    /\ \A k \in 2..Len(p) : IsContinuation(p[k])

\* t begins with a byte that leads nothing (11111xxx), or with a multi-byte
\* leading byte that already has as many bytes after it as it declares.
Unrecoverable(t) ==
    /\ t # <<>>
    /\ \/ t[1] >= 248
       \/ IsMultiLead(t[1]) /\ Len(t) >= Declares(t[1])

\* s ends with a plausible incomplete prefix.
IncompleteTail(s) == \E k \in 1..Min(3, Len(s)) : PlausiblePrefix(Suffix(s, k))

HasReplacement(text) ==
    \E i \in 1..(Len(text) - 2) : SubSeq(text, i, i + 2) = REPLACEMENT

\* pending followed by data, for the last push.
Merged == prev \o data

\* ---------------------------------------------------------------- claims

\* C1 (SpecWF): split-invariance.  When a well-formed byte sequence has been
\* pushed in any partition into chunks and flush is then called, the texts
\* returned by the pushes and the flush, concatenated, are exactly the
\* sequence, and that flush returns no output.
C1_SplitInvariance ==
    (op = "flush" /\ IsValid(consumed)) => (out = consumed /\ result = None)

\* A well-formed stream of full length was flushed whose last chunk began
\* inside a code point.
C1_Witness ==
    /\ op = "flush"
    /\ IsValid(consumed)
    /\ Len(consumed) = MaxWell
    /\ data # <<>>
    /\ data # consumed
    /\ ~IsValid(data)
    /\ out = consumed

\* C2: buffer bound (I1).  buffered_len() is at most 3 after any sequence of
\* push and flush calls.
C2_BufferBound == buffered_len(buf) <= 3

\* C3: discard of unrecoverable bytes.  When pending followed by data fails
\* validation and the bytes after the valid prefix begin with an invalid
\* leading byte or with a sequence already as long as its leading byte
\* declares, pending is empty when push returns.
C3_DiscardUnrecoverable ==
    (/\ op = "push"
     /\ data # <<>>
     /\ ~IsValid(Merged)
     /\ Unrecoverable(SliceFrom(Merged, ValidUpTo(Merged))))
    => buf = <<>>

\* C4: invariant I2.  pending is empty or a multi-byte leading byte followed
\* only by continuation bytes, shorter than the leading byte declares.
C4_PlausiblePending == buf = <<>> \/ PlausiblePrefix(buf)

\* C5: push step on a clean split.  If pending followed by non-empty data is
\* V followed by P, V well-formed and P empty or a plausible incomplete
\* prefix, push returns V (no output when V is empty) and pending becomes P.
C5_CleanSplit ==
    (op = "push" /\ data # <<>>) =>
        \A k \in 0..Len(Merged) :
            (/\ IsValid(SliceTo(Merged, k))
             /\ \/ k = Len(Merged)
                \/ PlausiblePrefix(SliceFrom(Merged, k)))
            => /\ result = (IF k = 0 THEN None ELSE Some(SliceTo(Merged, k)))
               /\ buf = SliceFrom(Merged, k)

\* A push onto a non-empty pending completed a code point, returned text and
\* retained the beginning of the next code point.
C5_Witness ==
    /\ op = "push"
    /\ prev # <<>>
    /\ result.some
    /\ PlausiblePrefix(buf)
    /\ IsValid(result.text)
    /\ Merged = result.text \o buf

\* C6: flush drains and resets.  flush returns no output when pending is
\* empty and otherwise the lossy decoding of pending, which is well-formed
\* non-empty text equal to pending when pending is itself well-formed;
\* afterwards pending is empty as on a new decoder, so a flush that follows
\* at once returns no output.
C6_FlushDrains ==
    op = "flush" =>
        /\ prev = <<>> => result = None
        /\ prev # <<>> =>
            /\ result = Some(from_utf8_lossy(prev))
            /\ result.text # <<>>
            /\ IsValid(result.text)
            /\ IsValid(prev) => result.text = prev
            /\ ~IsValid(prev) => HasReplacement(result.text)
        /\ buf = <<>>
        /\ is_empty(buf)

\* A flush drained a non-empty pending.
C6_Witness == op = "flush" /\ prev # <<>> /\ result.some /\ buf = <<>>

\* C7: an empty push is a no-op.  It returns no output and leaves pending
\* as it was, empty or not.
C7_EmptyPushNoop ==
    (op = "push" /\ data = <<>>) => (result = None /\ buf = prev)

\* An empty chunk was pushed while bytes were pending.
C7_Witness == op = "push" /\ data = <<>> /\ prev # <<>> /\ buf = prev

\* C8: fast path.  With pending empty, a non-empty chunk that is entirely
\* well-formed is returned as it is and pending is still empty.
C8_FastPath ==
    (op = "push" /\ prev = <<>> /\ data # <<>> /\ IsValid(data))
    => (result = Some(data) /\ buf = <<>>)

\* A well-formed chunk with a multi-byte code point took the fast path.
C8_Witness ==
    /\ op = "push"
    /\ prev = <<>>
    /\ Len(data) >= 3
    /\ IsValid(data)
    /\ \E i \in 1..Len(data) : IsMultiLead(data[i])
    /\ result = Some(data)

\* C9: lossy flush marks incompleteness.  If the bytes pushed end with a
\* plausible incomplete prefix, flush returns text containing U+FFFD and
\* is_empty() holds afterwards.
C9_FlushMarksIncomplete ==
    (op = "flush" /\ IncompleteTail(consumed))
    => (result.some /\ HasReplacement(result.text) /\ is_empty(buf))

\* C10: forward recovery.  After a push that delivered definitively invalid
\* bytes, the next push of a non-empty well-formed chunk returns exactly
\* that chunk.
C10_ForwardRecovery ==
    [][(/\ op = "push"
        /\ data # <<>>
        /\ ~IsValid(Merged)
        /\ Unrecoverable(SliceFrom(Merged, ValidUpTo(Merged)))
        /\ op' = "push"
        /\ data' # <<>>
        /\ IsValid(data'))
       => result' = Some(data')]_vars

\* a can be obtained from b by deleting bytes.
RECURSIVE IsSubseq(_, _)
IsSubseq(a, b) ==
    IF a = <<>> THEN TRUE
    ELSE IF b = <<>> THEN FALSE
    ELSE IF a[1] = b[1] THEN IsSubseq(Tail(a), Tail(b))
    ELSE IsSubseq(a, Tail(b))

\* C11: replacement characters come only from flush.  The text a push
\* returns is the beginning of pending followed by data, byte for byte; the
\* bytes it retains are the end of it and do not overlap the text; over a
\* stream the retained bytes are the last bytes pushed and the texts
\* returned so far are bytes pushed before them, in arrival order; and a
\* push returns U+FFFD only if EF BF BD was pushed.
C11_VerbatimOutput ==
    op = "push" =>
        /\ IsPrefix(result.text, Merged)
        /\ Len(result.text) + Len(buf) <= Len(Merged)
        /\ buf = Suffix(Merged, Len(buf))
        /\ Len(buf) <= Len(consumed)
        /\ buf = Suffix(consumed, Len(buf))
        /\ IsSubseq(out, SliceTo(consumed, Len(consumed) - Len(buf)))
        /\ HasReplacement(result.text) => HasReplacement(consumed)

\* A push returned a valid prefix and dropped malformed bytes behind it
\* without putting anything in their place.
C11_Witness ==
    /\ op = "push"
    /\ result.some
    /\ ~IsValid(Merged)
    /\ buf = <<>>
    /\ result.text # Merged
    /\ ~HasReplacement(result.text)

\* C12: output is never the empty string.  Whatever push or flush returns
\* is no output or a non-empty well-formed text.
C12_NeverEmptyText ==
    result.some => (result.text # <<>> /\ IsValid(result.text))

\* A non-empty chunk gave no valid prefix but an incomplete sequence to
\* retain: push returned no output, not an empty text.
C12_Witness ==
    /\ op = "push"
    /\ data # <<>>
    /\ ~IsValid(Merged)
    /\ ValidUpTo(Merged) = 0
    /\ PlausiblePrefix(buf)
    /\ result = None

\* C13: meaning of a None result.  For a non-empty chunk push returns text
\* whenever pending followed by data begins with a valid character, and when
\* it returns None every byte of pending followed by data is still in the
\* buffer: a push that returns None drops no byte.
C13_NoneDropsNothing ==
    (op = "push" /\ data # <<>>) =>
        /\ ValidUpTo(Merged) > 0 => result.some
        /\ ~result.some => buf = Merged

\* The bytes after the valid prefix of pending followed by data.
Trailing == SliceFrom(Merged, ValidUpTo(Merged))

\* C14: no fault on any input.  Every call returns; and whenever push
\* validates a buffer that is not well-formed, the valid prefix and the
\* classifier's result fit: the result does not exceed the number of
\* trailing bytes, so buf.len() - incomplete_len does not underflow.
C14_NoFault ==
    /\ ~panicked
    /\ (op = "push" /\ data # <<>> /\ ~IsValid(Merged)) =>
        /\ ValidUpTo(Merged) < Len(Merged)
        /\ incomplete_sequence_len(Trailing) >= 0
        /\ incomplete_sequence_len(Trailing) <= Len(Trailing)
        /\ Len(Merged) - incomplete_sequence_len(Trailing) >= 0
        /\ Len(buf) <= Len(Merged)

\* The classifier was given fewer than 3 bytes, all continuation bytes, and
\* its fallback kept as many as there were.
C14_Witness ==
    /\ op = "push"
    /\ ~panicked
    /\ ~IsValid(Merged)
    /\ Len(Trailing) < 3
    /\ \A k \in 1..Len(Trailing) : IsContinuation(Trailing[k])
    /\ incomplete_sequence_len(Trailing) = Len(Trailing)
    /\ buf = Trailing

\* C15: the fast path and the general path agree.  A decoder without the
\* fast path, given the same calls, has returned the same value and holds
\* the same pending bytes after every call.
C15_FastPathAgrees == nf_buf = buf /\ nf_result = result

\* The fast path returned a chunk with a multi-byte code point, and the
\* decoder without it returned the same text.
C15_Witness ==
    /\ op = "push"
    /\ prev = <<>>
    /\ IsValid(data)
    /\ Len(data) >= 3
    /\ \E i \in 1..Len(data) : IsMultiLead(data[i])
    /\ result = Some(data)
    /\ nf_result = Some(data)
    /\ nf_buf = <<>>

\* The length of the longest beginning of s that ends on a code-point
\* boundary.
Boundary(s) ==
    CHOOSE k \in 0..Len(s) :
        /\ IsValid(SliceTo(s, k))
        /\ \A j \in (k + 1)..Len(s) : ~IsValid(SliceTo(s, j))

\* C16 (SpecWF): prompt delivery on well-formed streams.  After every push
\* of a piece of a well-formed sequence the texts returned so far are the
\* longest beginning of the consumed bytes that ends on a code-point
\* boundary and pending holds exactly the bytes after it; and a non-empty
\* push that returns no output has kept pending followed by data whole, as
\* the beginning of one code point.
C16_PromptDelivery ==
    op = "push" =>
        /\ out = SliceTo(consumed, Boundary(consumed))
        /\ buf = SliceFrom(consumed, Boundary(consumed))
        /\ (data # <<>> /\ ~result.some) => (buf = Merged /\ PlausiblePrefix(buf))

\* After text had been returned, a push ended three bytes into a 4-byte
\* code point and returned no output.
C16_Witness ==
    /\ op = "push"
    /\ data # <<>>
    /\ ~result.some
    /\ prev # <<>>
    /\ out # <<>>
    /\ Len(buf) = 3
    /\ consumed = out \o buf

\* push validated a buffer that is not well-formed and classified Trailing.
Classified == op = "push" /\ data # <<>> /\ ~panicked /\ ~IsValid(Merged)

\* The positions of t that hold no continuation byte.
NonCont(t) == {k \in 1..Len(t) : ~IsContinuation(t[k])}

Max(S) == CHOOSE m \in S : \A x \in S : x <= m

\* C17: the classifier decides on the most recent leading byte.  If the
\* last byte of the trailing bytes that is no continuation byte declares
\* more bytes than there are from it to the end, the classifier returns the
\* number of bytes from it to the end, whatever precedes it.
C17_MostRecentLead ==
    (Classified /\ NonCont(Trailing) # {}) =>
        LET k == Max(NonCont(Trailing))
            available == Len(Trailing) - k + 1
        IN Declares(Trailing[k]) > available
           => incomplete_sequence_len(Trailing) = available

\* C18: trailing ASCII means nothing is incomplete.  When the trailing bytes
\* end with an ASCII byte the classifier returns 0, so the bytes push
\* retains as an incomplete sequence never end with an ASCII byte.
C18_TrailingAscii ==
    /\ (Classified /\ IsAscii(Trailing[Len(Trailing)]))
       => incomplete_sequence_len(Trailing) = 0
    /\ (Classified /\ incomplete_sequence_len(Trailing) > 0)
       => ~IsAscii(buf[Len(buf)])

\* The last (up to 4) bytes of t, the window the classifier looks at.
Window(t) == Suffix(t, Min(Len(t), 4))

\* C19: continuation-only fallback.  The classifier's final branch is taken
\* only when every byte of the window is a continuation byte, so the bytes
\* it retains are continuation bytes and at most 3.
C19_FallbackOnlyContinuation ==
    (Classified /\ fallback_taken(Trailing)) =>
        /\ \A k \in 1..Len(Window(Trailing)) : IsContinuation(Window(Trailing)[k])
        /\ Len(buf) <= 3
        /\ \A k \in 1..Len(buf) : IsContinuation(buf[k])

\* C19, second part (SpecWF): for chunks that are successive pieces of a
\* well-formed sequence the final branch is never reached.
C19_WellFormedNoFallback == Classified => ~fallback_taken(Trailing)

\* The texts that push(c1), ..., push(cn) return on a decoder whose buffer
\* is b, and then flush(), in order, "no output" results left out.
RECURSIVE CoreTexts(_, _)
CoreTexts(b, cs) ==
    IF cs = <<>>
    THEN (IF flush(b).result.some THEN <<flush(b).result.text>> ELSE <<>>)
    ELSE LET r == push(b, Head(cs))
         IN (IF r.result.some THEN <<r.result.text>> ELSE <<>>)
            \o CoreTexts(r.buf, Tail(cs))

\* The same without the final flush.
RECURSIVE PushTexts(_, _)
PushTexts(b, cs) ==
    IF cs = <<>> THEN <<>>
    ELSE LET r == push(b, Head(cs))
         IN (IF r.result.some THEN <<r.result.text>> ELSE <<>>)
            \o PushTexts(r.buf, Tail(cs))

RECURSIVE Flatten(_)
Flatten(cs) == IF cs = <<>> THEN <<>> ELSE Head(cs) \o Flatten(Tail(cs))

\* C20 (SpecCodec): adapter end-of-stream protocol.  The chunks the codec
\* passes to push are the bytes read, in arrival order; until the source
\* ends the texts forwarded are those the pushes returned; and when the
\* stream signals its end every byte read has been pushed, the chunker has
\* been flushed and the texts forwarded are exactly those of push(c1), ...,
\* push(cn), flush() on a new decoder.
C20_AdapterProtocol ==
    /\ Flatten(chunks) \o src = readbytes
    /\ ~eof => fwd = PushTexts(<<>>, chunks)
    /\ ended =>
        /\ src = <<>>
        /\ Flatten(chunks) = readbytes
        /\ buf = <<>>
        /\ fwd = CoreTexts(<<>>, chunks)

\* The stream ended after decode_eof had pushed left-over bytes that gave
\* text, and the flush that followed gave a replacement character, which
\* was forwarded last.
C20_Witness ==
    /\ ended
    /\ eof_pushed
    /\ Len(chunks) >= 2
    /\ Len(fwd) >= 2
    /\ HasReplacement(fwd[Len(fwd)])

\* C21 (Spec): the buffer never holds text that is only waiting for flush.
\* In every reachable state a non-empty buffer, taken as a whole, is not
\* well-formed UTF-8; and every text flush returns, whatever was pushed,
\* contains at least one U+FFFD.
C21_PendingNeverText ==
    /\ buf # <<>> => ~IsValid(buf)
    /\ (op = "flush" /\ result.some) => HasReplacement(result.text)

\* A flush has returned text for a buffer that a push of malformed input
\* left behind together with a well-formed character.
C21_Witness ==
    /\ op = "flush"
    /\ result.some
    /\ Len(prev) >= 2
    /\ \E i \in 1..Len(prev) : IsAscii(prev[i])
    /\ HasReplacement(result.text)

\* C22 (SpecLong): whenever a push returns text, at most 3 bytes are buffered
\* immediately afterwards, and they are exactly the last buffered_len bytes
\* of pending followed by data.
C22_SomeKeepsShortSuffix ==
    (op = "push" /\ ~panicked /\ result.some) =>
        /\ buffered_len(buf) <= 3
        /\ buf = Suffix(Merged, buffered_len(buf))

\* A push returned text and retained bytes, with
\* 4 malformed bytes after the text, of which the last 3 were retained.
C22_Witness ==
    /\ op = "push"
    /\ ~panicked
    /\ result.some
    /\ Len(Merged) - Len(result.text) >= 4
    /\ buffered_len(buf) = 3

====
